---- MODULE Spec2Model ----
(***************************************************************************)
(* i18next -> ICU MessageFormat converter (src/src/converter.js).          *)
(*                                                                         *)
(* Strings (keys and texts) are sequences of one-character strings, so     *)
(* that the three regular expressions of the converter are modelled on     *)
(* characters.  A JavaScript object is the sequence of its own enumerable  *)
(* properties in Object.entries order.  The converter is a synchronous     *)
(* function: one call is one step.  What a call can reach outside its      *)
(* argument and result, Object.prototype and the built-in function objects *)
(* found through it, is part of the state.  A processFiles batch is a      *)
(* sequence of steps, one between two awaits, over the located files.      *)
(***************************************************************************)
EXTENDS Integers, Sequences, FiniteSets

VARIABLES tree, data, result, pc, objectPrototype, builtinOwn, ncalls,
          located, inputKind, outputGiven, callbackGiven, bpc, idx, results,
          attempt, oplog, rejection

\* The state of a processFiles batch.
batchVars ==
  <<located, inputKind, outputGiven, callbackGiven, bpc, idx, results,
    attempt, oplog, rejection>>

vars ==
  <<tree, data, result, pc, objectPrototype, builtinOwn, ncalls, located,
    inputKind, outputGiven, callbackGiven, bpc, idx, results, attempt, oplog,
    rejection>>

(***************************************************************************)
(* Bounds of the model.                                                    *)
(***************************************************************************)
MaxSegs == 3
MaxKeys == 2
MaxDepth == 2
MaxCalls == 2
MaxFiles == 2

(***************************************************************************)
(* Characters and the words the code spells out.                           *)
(***************************************************************************)
LineTerminators == {"\n", "\r"}

Digits == <<"0", "1", "2", "3", "4", "5", "6", "7", "8", "9">>

W_zero == <<"z", "e", "r", "o">>
W_one == <<"o", "n", "e">>
W_two == <<"t", "w", "o">>
W_few == <<"f", "e", "w">>
W_many == <<"m", "a", "n", "y">>
W_other == <<"o", "t", "h", "e", "r">>
W_proto == <<"_", "_", "p", "r", "o", "t", "o", "_", "_">>
W_constructor == <<"c", "o", "n", "s", "t", "r", "u", "c", "t", "o", "r">>
W_toString == <<"t", "o", "S", "t", "r", "i", "n", "g">>
W_valueOf == <<"v", "a", "l", "u", "e", "O", "f">>
W_null == <<"n", "u", "l", "l">>
W_true == <<"t", "r", "u", "e">>
W_false == <<"f", "a", "l", "s", "e">>
W_objectObject == <<"[", "o", "b", "j", "e", "c", "t", " ", "O", "b", "j", "e", "c", "t", "]">>
W_REF == <<"[", "R", "E", "F", ":">>
W_pluralHead == <<"{", "c", "o", "u", "n", "t", ",", " ", "p", "l", "u", "r", "a", "l", ",", " ">>

(***************************************************************************)
(* JavaScript values, as JSON.parse builds them.                           *)
(***************************************************************************)
Str(s) == [type |-> "string", s |-> s]
Num(n) == [type |-> "number", n |-> n]
Bool(b) == [type |-> "boolean", b |-> b]
Null == [type |-> "null"]
Undefined == [type |-> "undefined"]
Arr(items) == [type |-> "array", items |-> items, props |-> <<>>]
Obj(entries) == [type |-> "object", entries |-> entries]
Entry(k, v) == [key |-> k, value |-> v]

\* typeof value === 'object' && value !== null && !Array.isArray(value)
IsPlainObject(v) == v.type = "object"

\* JavaScript truthiness of a value (the test "!pluralGroups[baseKey]").
Truthy(v) ==
  CASE v.type = "string" -> v.s # <<>>
    [] v.type = "number" -> v.n # 0
    [] v.type = "boolean" -> v.b
    [] v.type = "null" -> FALSE
    [] v.type = "undefined" -> FALSE
    [] OTHER -> TRUE

IsPrimitive(v) == v.type \in {"string", "number", "boolean", "null", "undefined"}

(***************************************************************************)
(* Own properties of an ordinary object: integer-index keys first, in      *)
(* ascending order, then the other keys in the order they were created.    *)
(* (An operator that needs a computed value more than once takes it as a   *)
(* parameter of a helper, here and below.)                                 *)
(***************************************************************************)
IsDigit(c) == \E d \in 1..10 : Digits[d] = c

DigitValue(c) == (CHOOSE d \in 1..10 : Digits[d] = c) - 1

IsArrayIndex(k) ==
  /\ Len(k) >= 1
  /\ Len(k) <= 9
  /\ \A i \in 1..Len(k) : IsDigit(k[i])
  /\ (Len(k) > 1 => k[1] # "0")

RECURSIVE IndexValue(_)
IndexValue(k) ==
  IF k = <<>> THEN 0
  ELSE 10 * IndexValue(SubSeq(k, 1, Len(k) - 1)) + DigitValue(k[Len(k)])

HasKey(entries, k) == \E i \in 1..Len(entries) : entries[i].key = k

KeyIndex(entries, k) == CHOOSE i \in 1..Len(entries) : entries[i].key = k

GetOwn(entries, k) == entries[KeyIndex(entries, k)].value

KeysOf(entries) == {entries[i].key : i \in 1..Len(entries)}

\* Number of integer-index keys of entries below n.
IndexKeysBelow(entries, n) ==
  Cardinality({i \in 1..Len(entries) :
                 IsArrayIndex(entries[i].key) /\ IndexValue(entries[i].key) < n})

\* Number of leading entries that stay in front of a new key k.
InsertPoint(entries, k) ==
  IF IsArrayIndex(k) THEN IndexKeysBelow(entries, IndexValue(k)) ELSE Len(entries)

InsertAt(entries, p, e) ==
  SubSeq(entries, 1, p) \o <<e>> \o SubSeq(entries, p + 1, Len(entries))

\* obj[k] = v on an own data property, or creating one.
PutOwn(entries, k, v) ==
  IF HasKey(entries, k)
  THEN [entries EXCEPT ![KeyIndex(entries, k)] = Entry(k, v)]
  ELSE InsertAt(entries, InsertPoint(entries, k), Entry(k, v))

(***************************************************************************)
(* Text scanning: String.prototype.replace with a global regular           *)
(* expression replaces the leftmost match, then goes on after its end.     *)
(***************************************************************************)
\* The least index of hits; none when hits is empty.
LeastOr(hits, none) ==
  IF hits = {} THEN none ELSE CHOOSE k \in hits : \A j \in hits : k <= j

\* Index of the first c in s at or after i; Len(s) + 1 when there is none.
FirstAt(s, c, i) == LeastOr({k \in i..Len(s) : s[k] = c}, Len(s) + 1)

\* Whether the characters of w stand in s from index i on.
StartsAt(s, i, w) ==
  /\ i >= 1
  /\ i + Len(w) - 1 <= Len(s)
  /\ \A j \in 1..Len(w) : s[i + j - 1] = w[j]

EndsWith(s, w) == StartsAt(s, Len(s) - Len(w) + 1, w)

\* The pattern with [^}]* for [^}]+: an empty capture matches too.
InterpolationCloseAt_EmptyCapture(s, i, j) ==
  IF j >= i + 2 /\ StartsAt(s, j, <<"}", "}">>) THEN j + 1 ELSE 0

\* The rest of /\{\{([^}]+)\}\}/ after "{{" at i, j being the first "}" after
\* it: the capture is not empty and "}}" stands at j.
InterpolationCloseAt(s, i, j) ==
  IF j > i + 2 /\ StartsAt(s, j, <<"}", "}">>) THEN j + 1 ELSE 0

\* /\{\{([^}]+)\}\}/ tried at index i: the index of the last character of
\* the match, 0 when it does not match there.
InterpolationMatchEnd(s, i) ==
  IF StartsAt(s, i, <<"{", "{">>)
  THEN InterpolationCloseAt(s, i, FirstAt(s, "}", i + 2))
  ELSE 0

\* The index at or after i where the leftmost match starts, 0 when nothing
\* matches from i on.
NextInterpolation(s, i) ==
  LeastOr({k \in i..Len(s) : InterpolationMatchEnd(s, k) > 0}, 0)

\* text.replace(/\{\{([^}]+)\}\}/g, '{$1}') from index i on: the text before
\* the leftmost match at m is kept, the match ending at e is replaced by
\* '{$1}', and the scan goes on after e.
RECURSIVE ReplaceInterpolation(_, _)
InterpolationReplaced(s, m, e) ==
  <<"{">> \o SubSeq(s, m + 2, e - 2) \o <<"}">> \o ReplaceInterpolation(s, e + 1)

InterpolationStep(s, i, m) ==
  IF m = 0 THEN SubSeq(s, i, Len(s))
  ELSE SubSeq(s, i, m - 1) \o InterpolationReplaced(s, m, InterpolationMatchEnd(s, m))

ReplaceInterpolation(s, i) ==
  IF i > Len(s) THEN <<>> ELSE InterpolationStep(s, i, NextInterpolation(s, i))

\* convertInterpolation: a value that is no string is returned as it is.
convertInterpolation(text) ==
  IF text.type # "string" THEN text
  ELSE Str(ReplaceInterpolation(text.s, 1))

\* The pattern with [^)]* for [^)]+: an empty capture matches too.
NestingCloseAt_EmptyCapture(s, i, j) == IF j >= i + 3 /\ j <= Len(s) THEN j ELSE 0

\* The rest of /\$t\(([^)]+)\)/ after "$t(" at i, j being the first ")" after
\* it: there is one and the capture is not empty.
NestingCloseAt(s, i, j) == IF j > i + 3 /\ j <= Len(s) THEN j ELSE 0

\* /\$t\(([^)]+)\)/ tried at index i: the index of the closing parenthesis,
\* 0 when it does not match there.
NestingMatchEnd(s, i) ==
  IF StartsAt(s, i, <<"$", "t", "(">>)
  THEN NestingCloseAt(s, i, FirstAt(s, ")", i + 3))
  ELSE 0

\* The index at or after i where the leftmost match starts, 0 when nothing
\* matches from i on.
NextNesting(s, i) ==
  LeastOr({k \in i..Len(s) : NestingMatchEnd(s, k) > 0}, 0)

\* text.replace(/\$t\(([^)]+)\)/g, (match, key) => `[REF:${key}]`) from
\* index i on: the text before the leftmost match at m is kept, the match
\* ending at e is replaced, and the scan goes on after e.
RECURSIVE ReplaceNesting(_, _)
NestingReplaced(s, m, e) ==
  W_REF \o SubSeq(s, m + 3, e - 1) \o <<"]">> \o ReplaceNesting(s, e + 1)

NestingStep(s, i, m) ==
  IF m = 0 THEN SubSeq(s, i, Len(s))
  ELSE SubSeq(s, i, m - 1) \o NestingReplaced(s, m, NestingMatchEnd(s, m))

ReplaceNesting(s, i) ==
  IF i > Len(s) THEN <<>> ELSE NestingStep(s, i, NextNesting(s, i))

\* convertNesting: a value that is no string is returned as it is.
convertNesting(text) ==
  IF text.type # "string" THEN text
  ELSE Str(ReplaceNesting(text.s, 1))

(***************************************************************************)
(* Plural keys.                                                            *)
(***************************************************************************)
Forms == {W_zero, W_one, W_two, W_few, W_many, W_other}

NoMatch == [matched |-> FALSE]

\* key is <base>_<f>: "." matches any character but a line terminator, so
\* the base is non-empty and holds none.
MatchesForm(key, f) ==
  /\ EndsWith(key, <<"_">> \o f)
  /\ Len(key) > Len(f) + 1
  /\ \A i \in 1..(Len(key) - Len(f) - 1) : key[i] \notin LineTerminators

SplitKey(key, f) ==
  [matched |-> TRUE, baseKey |-> SubSeq(key, 1, Len(key) - Len(f) - 1), form |-> f]

PluralMatch(key, fits) ==
  IF fits = {} THEN NoMatch ELSE SplitKey(key, CHOOSE f \in fits : TRUE)

\* key.match(/^(.+)_(zero|one|two|few|many|other)$/)
parsePluralKey(key) == PluralMatch(key, {f \in Forms : MatchesForm(key, f)})

\* formMapping[form] || form
formMapping(form) == IF form = W_zero THEN <<"=", "0">> ELSE form

(***************************************************************************)
(* ToString of a template-literal substitution.  An object is converted    *)
(* with its toString method: an own property of that name is no function   *)
(* in a parsed document, and then valueOf is tried, which does not give a  *)
(* primitive either: TypeError.                                            *)
(***************************************************************************)
RECURSIVE NatToString(_)
NatToString(n) ==
  IF n < 10 THEN <<Digits[n + 1]>>
  ELSE NatToString(n \div 10) \o <<Digits[(n % 10) + 1]>>

Thrown == [threw |-> TRUE]

Text(s) == [threw |-> FALSE, s |-> s]

\* head, then sep and rest when more follows; a throw in either is a throw.
JoinWith(head, sep, rest, more) ==
  IF head.threw \/ rest.threw THEN Thrown
  ELSE Text(head.s \o (IF more THEN sep ELSE <<>>) \o rest.s)

RECURSIVE JoinFrom(_, _)
RECURSIVE ToStringJS(_)
ToStringJS(v) ==
  CASE v.type = "string" -> Text(v.s)
    [] v.type = "number" ->
         IF v.n < 0 THEN Text(<<"-">> \o NatToString(-v.n)) ELSE Text(NatToString(v.n))
    [] v.type = "boolean" -> IF v.b THEN Text(W_true) ELSE Text(W_false)
    [] v.type = "null" -> Text(W_null)
    [] v.type = "array" -> JoinFrom(v.items, 1)
    [] OTHER -> IF HasKey(v.entries, W_toString) THEN Thrown ELSE Text(W_objectObject)

\* Array.prototype.join of the items from index i on: null gives "".
JoinFrom(items, i) ==
  IF i > Len(items) THEN Text(<<>>)
  ELSE JoinWith(IF items[i].type = "null" THEN Text(<<>>) ELSE ToStringJS(items[i]),
                <<",">>, JoinFrom(items, i + 1), i < Len(items))

(***************************************************************************)
(* What a property lookup on the accumulator "pluralGroups = {}" finds.    *)
(* The accumulator is an ordinary object, so a base key it does not own is *)
(* looked up in Object.prototype: "__proto__" gives Object.prototype       *)
(* itself, the name of a built-in method gives that function object, and a *)
(* property an earlier assignment put on Object.prototype gives its value. *)
(* e is [objectPrototype, builtinOwn, alias, input]: the properties the    *)
(* converter has added to Object.prototype and to the built-in function    *)
(* objects, and the document being converted as it is in memory.  A value  *)
(* is a reference: a property of Object.prototype that was given a list or *)
(* an object of the document is that very node, and alias says where in    *)
(* the document it is.                                                     *)
(***************************************************************************)
BuiltinNames == {W_constructor, W_toString, W_valueOf}

PristineBuiltins == [n \in BuiltinNames |-> <<>>]

\* Where an object is: a node of the document, at path (keys from the root),
\* or an object that is no part of the document.
InputRoot == [input |-> TRUE, path |-> <<>>]

NotInput == [input |-> FALSE, path |-> <<>>]

ChildOf(at, key) == [at EXCEPT !.path = Append(@, key)]

PristineEnv ==
  [objectPrototype |-> <<>>, builtinOwn |-> PristineBuiltins,
   alias |-> <<>>, input |-> Undefined]

LookupGroup(groups, baseKey, e) ==
  IF HasKey(groups, baseKey) THEN [where |-> "own", value |-> Obj(GetOwn(groups, baseKey))]
  ELSE IF baseKey = W_proto THEN [where |-> "prototype", value |-> Obj(e.objectPrototype)]
  ELSE IF baseKey \in BuiltinNames
       THEN [where |-> "builtin", value |-> Obj(e.builtinOwn[baseKey])]
  ELSE IF HasKey(e.objectPrototype, baseKey)
       THEN [where |-> "inherited", value |-> GetOwn(e.objectPrototype, baseKey)]
  ELSE [where |-> "none", value |-> Undefined]

\* obj[form] = value on an object or array value.
SetProperty(obj, form, value) ==
  IF obj.type = "array" THEN [obj EXCEPT !.props = PutOwn(@, form, value)]
  ELSE [obj EXCEPT !.entries = PutOwn(@, form, value)]

\* node[path[i]]...[path[Len(path)]][form] = value
RECURSIVE SetAt(_, _, _, _, _)
SetAt(node, path, i, form, value) ==
  IF i > Len(path) THEN SetProperty(node, form, value)
  ELSE [node EXCEPT !.entries[KeyIndex(node.entries, path[i])].value =
                      SetAt(@, path, i + 1, form, value)]

\* Where the value of Object.prototype[name] is.
AliasOf(e, name) == IF HasKey(e.alias, name) THEN GetOwn(e.alias, name) ELSE NotInput

\* Object.prototype[form] = value, value being the node at `at` if it is one.
SetPrototypeProperty(e, form, value, at) ==
  [e EXCEPT !.objectPrototype = PutOwn(@, form, value),
            !.alias = PutOwn(@, form, IF IsPrimitive(value) THEN NotInput ELSE at)]

\* Object.prototype[baseKey][form] = value on the object that is there.
SetInherited(e, baseKey, changed, at, form, value) ==
  [e EXCEPT !.objectPrototype = PutOwn(@, baseKey, changed),
            !.input = IF at.input THEN SetAt(@, at.path, 1, form, value) ELSE @]

\* if (!pluralGroups[baseKey]) pluralGroups[baseKey] = {};
\* on the loop state st = [threw, result, groups, env, at], `at` being where
\* the object of the level is.
EnsureGroup(st, baseKey) ==
  IF Truthy(LookupGroup(st.groups, baseKey, st.env).value) THEN st
  ELSE [st EXCEPT !.groups = PutOwn(@, baseKey, <<>>)]

\* target[form] = value, target being what pluralGroups[baseKey] gives.  The
\* module is an ES module, so strict: an assignment to a property of a
\* primitive value throws a TypeError.
StoreFormAt(st, target, baseKey, form, value) ==
  CASE target.where = "own" ->
         [st EXCEPT !.groups = PutOwn(@, baseKey, PutOwn(target.value.entries, form, value))]
    [] target.where = "prototype" ->
         [st EXCEPT !.env = SetPrototypeProperty(@, form, value,
                              ChildOf(st.at, baseKey \o <<"_">> \o form))]
    [] target.where = "builtin" ->
         [st EXCEPT !.env.builtinOwn[baseKey] = PutOwn(@, form, value)]
    [] OTHER ->
         IF IsPrimitive(target.value) THEN [st EXCEPT !.threw = TRUE]
         ELSE [st EXCEPT !.env = SetInherited(@, baseKey,
                                   SetProperty(target.value, form, value),
                                   AliasOf(st.env, baseKey), form, value)]

\* pluralGroups[baseKey][form] = value;
StoreForm(st, baseKey, form, value) ==
  StoreFormAt(st, LookupGroup(st.groups, baseKey, st.env), baseKey, form, value)

\* Lines 48-51 of groupPlurals.
AddPluralForm(st, baseKey, form, value) ==
  StoreForm(EnsureGroup(st, baseKey), baseKey, form, value)

\* result[key] = value on "result = {}": the key "__proto__" runs the setter
\* inherited from Object.prototype, which creates no own property.
SetResult(entries, key, value) ==
  IF key = W_proto THEN entries ELSE PutOwn(entries, key, value)

(***************************************************************************)
(* createICUPlural(forms): one "selector{text}" part per form, in the      *)
(* order of Object.entries(forms), joined with one space.                  *)
(***************************************************************************)
\* `${icuForm}{${convertedText}}`
PluralPart(icuForm, convertedText) ==
  IF convertedText.threw THEN Thrown
  ELSE Text(icuForm \o <<"{">> \o convertedText.s \o <<"}">>)

RECURSIVE PluralParts(_, _)
PluralParts(forms, i) ==
  IF i > Len(forms) THEN Text(<<>>)
  ELSE JoinWith(PluralPart(formMapping(forms[i].key),
                           ToStringJS(convertInterpolation(forms[i].value))),
                <<" ">>, PluralParts(forms, i + 1), i < Len(forms))

\* `{count, plural, ${parts.join(' ')}}`
PluralOf(parts) ==
  IF parts.threw THEN Thrown
  ELSE [threw |-> FALSE, value |-> Str(W_pluralHead \o parts.s \o <<"}">>)]

\* The same with the parts in the opposite order.
createICUPlural_Reversed(forms) ==
  PluralOf(PluralParts([i \in 1..Len(forms) |-> forms[Len(forms) + 1 - i]], 1))

createICUPlural(forms) == PluralOf(PluralParts(forms, 1))

(***************************************************************************)
(* groupPlurals(translations).  GroupLoop is the first loop, from entry i  *)
(* on; CompileLoop the second, over Object.entries(pluralGroups).          *)
(***************************************************************************)
RECURSIVE groupPlurals(_, _, _)

\* The same with pluralGroups declared once for the module and emptied at the
\* start of each call: the outer loop goes on with the inner call's groups.
StoreNested_ModuleLevelGroups(st, key, sub) ==
  IF sub.threw THEN [st EXCEPT !.threw = TRUE, !.env = sub.env]
  ELSE [st EXCEPT !.result = SetResult(@, key, Obj(sub.result)), !.env = sub.env,
                  !.groups = sub.groups]

\* result[key] = groupPlurals(value), sub being what the inner call gave.
StoreNested(st, key, sub) ==
  IF sub.threw THEN [st EXCEPT !.threw = TRUE, !.env = sub.env]
  ELSE [st EXCEPT !.result = SetResult(@, key, Obj(sub.result)), !.env = sub.env]

\* The body of the first loop.
GroupEntry(st, key, value, pluralInfo) ==
  IF pluralInfo.matched
  THEN AddPluralForm(st, pluralInfo.baseKey, pluralInfo.form, value)
  ELSE IF IsPlainObject(value)
  THEN StoreNested(st, key, groupPlurals(value.entries, st.env, ChildOf(st.at, key)))
  ELSE [st EXCEPT !.result = SetResult(@, key, value)]

RECURSIVE GroupLoop(_, _, _)
GroupLoop(entries, i, st) ==
  IF i > Len(entries) \/ st.threw THEN st
  ELSE GroupLoop(entries, i + 1,
         GroupEntry(st, entries[i].key, entries[i].value, parsePluralKey(entries[i].key)))

\* result[baseKey] = createICUPlural(forms);
StorePlural(st, baseKey, plural) ==
  IF plural.threw THEN [st EXCEPT !.threw = TRUE]
  ELSE [st EXCEPT !.result = SetResult(@, baseKey, plural.value)]

RECURSIVE CompileLoop(_, _, _)
CompileLoop(groups, i, st) ==
  IF i > Len(groups) \/ st.threw THEN st
  ELSE CompileLoop(groups, i + 1,
         StorePlural(st, groups[i].key, createICUPlural(groups[i].value)))

CompileGroups(scanned) == CompileLoop(scanned.groups, 1, scanned)

\* Gives [threw, result, groups, env, at]: result is the returned object.
groupPlurals(translations, e, at) ==
  CompileGroups(GroupLoop(translations, 1,
                  [threw |-> FALSE, result |-> <<>>, groups |-> <<>>, env |-> e,
                   at |-> at]))

(***************************************************************************)
(* convertValue and convertTranslations.  ConvertLoop is the loop of       *)
(* convertTranslations over Object.entries(grouped), from entry i on.      *)
(***************************************************************************)
RECURSIVE convertTranslations(_, _, _)
\* convertValue without its last line "return value;".
convertValue_NoFinalReturn(value, e) ==
  IF value.type = "string"
  THEN [threw |-> FALSE, value |-> convertNesting(convertInterpolation(value)), env |-> e]
  ELSE IF IsPlainObject(value)
  THEN convertTranslations(value.entries, e, NotInput)
  ELSE [threw |-> FALSE, value |-> Undefined, env |-> e]

convertValue(value, e) ==
  IF value.type = "string"
  THEN [threw |-> FALSE, value |-> convertNesting(convertInterpolation(value)), env |-> e]
  ELSE IF IsPlainObject(value)
  THEN convertTranslations(value.entries, e, NotInput)
  ELSE [threw |-> FALSE, value |-> value, env |-> e]

\* result[key] = convertValue(value);
StoreConverted(st, key, converted) ==
  IF converted.threw THEN [st EXCEPT !.threw = TRUE, !.env = converted.env]
  ELSE [st EXCEPT !.result = SetResult(@, key, converted.value), !.env = converted.env]

RECURSIVE ConvertLoop(_, _, _)
ConvertLoop(grouped, i, st) ==
  IF i > Len(grouped) \/ st.threw THEN st
  ELSE ConvertLoop(grouped, i + 1,
         StoreConverted(st, grouped[i].key, convertValue(grouped[i].value, st.env)))

Returned(done) == [threw |-> done.threw, value |-> Obj(done.result), env |-> done.env]

ConvertGrouped(grouped) ==
  Returned(ConvertLoop(grouped.result, 1,
             [threw |-> grouped.threw, result |-> <<>>, env |-> grouped.env]))

\* Gives [threw, value, env]: value is the returned object.
convertTranslations(translations, e, at) ==
  ConvertGrouped(groupPlurals(translations, e, at))

\* convertFile(data): the document to convert is data, and no property of
\* Object.prototype is a node of it yet.
convertFile(document, e) ==
  convertTranslations(document.entries,
                      [e EXCEPT !.input = document, !.alias = <<>>], InputRoot)

(***************************************************************************)
(* Inputs.  A document is what JSON.parse gives: an object whose values    *)
(* are strings, numbers, booleans, null, arrays and objects.               *)
(***************************************************************************)
K_a == <<"a">>
K_a_one == K_a \o <<"_">> \o W_one
K_a_other == K_a \o <<"_">> \o W_other
K_a_zero == K_a \o <<"_">> \o W_zero
K_constructor_one == W_constructor \o <<"_">> \o W_one
K_proto_one == W_proto \o <<"_">> \o W_one
K_one_other == W_one \o <<"_">> \o W_other

Keys == {K_a, K_a_one, K_a_other, W_constructor, K_constructor_one, W_proto,
         K_proto_one, K_one_other}

T_x == <<"x">>

Leaves == {Str(T_x), Num(5), Null}

\* Sequences of at most n entries with pairwise different keys.
LevelsOver(keys, values, n) ==
  UNION {{e \in [1..m -> {Entry(k, v) : k \in keys, v \in values}] :
            \A i, j \in 1..m : i # j => e[i].key # e[j].key} : m \in 0..n}

\* The levels at depth d: a level holds at most MaxKeys - d + 1 entries, and
\* objects nest down to depth MaxDepth.
RECURSIVE LevelsAt(_)
LevelsAt(d) ==
  LevelsOver(Keys,
             Leaves \cup (IF d < MaxDepth /\ d < MaxKeys
                          THEN {Obj(e) : e \in LevelsAt(d + 1)} ELSE {}),
             MaxKeys - d + 1)

Trees == {Obj(e) : e \in LevelsAt(1)}

\* Texts: up to MaxSegs segments, each a whole construct or a fragment.
Segs == {<<"{", "{", "c", "}", "}">>, <<"$", "t", "(", "c", ")">>,
         <<"{", "{">>, <<"}", "}">>, <<"{">>, <<"}">>, <<"c">>,
         <<"$", "t", "(">>, <<")">>}

RECURSIVE Flatten(_)
Flatten(ss) == IF ss = <<>> THEN <<>> ELSE Head(ss) \o Flatten(Tail(ss))

Texts == UNION {{Flatten(ss) : ss \in [1..m -> Segs]} : m \in 0..MaxSegs}

\* A text as a plain leaf, as a nested plain leaf, as the one member of a
\* plural family, and as the first member of a family of two.
TextShapes == {"plain", "nested", "single", "family"}

TextTree(shape, s) ==
  CASE shape = "plain"  -> Obj(<<Entry(K_a, Str(s))>>)
    [] shape = "nested" -> Obj(<<Entry(K_a, Obj(<<Entry(K_a, Str(s))>>))>>)
    [] shape = "single" -> Obj(<<Entry(K_a_one, Str(s))>>)
    [] shape = "family" ->
         Obj(<<Entry(K_a_zero, Str(s)), Entry(K_a_other, Str(T_x))>>)

TextTrees == {TextTree(shape, s) : shape \in TextShapes, s \in Texts}

\* Documents converted one after the other in one process.
CallTrees ==
  {Obj(e) : e \in LevelsOver({K_a, K_a_one, K_proto_one, K_one_other},
                             {Str(T_x), Null, Obj(<<>>), Arr(<<>>)}, 2)}

\* Documents with values of every kind: strings with and without a
\* placeholder or a reference, a number, a boolean, null and a list.
K_a_one_other == K_a_one \o <<"_">> \o W_other

T_icu == <<"{", "c", "}">>

T_placeholder == <<"{", "{", "c", "}", "}">>

T_reference == <<"$", "t", "(", "c", ")">>

A_texts == Arr(<<Str(T_placeholder), Str(T_reference)>>)

ValueKeys == {K_a, K_a_one, K_a_one_other, W_proto}

Values == {Str(T_x), Str(T_icu), Str(T_placeholder), Str(T_reference),
           Num(5), Bool(TRUE), Null, A_texts}

\* The level under n nestings below the key "a".
RECURSIVE Wrapped(_, _)
Wrapped(level, n) ==
  IF n = 0 THEN Obj(level) ELSE Obj(<<Entry(K_a, Wrapped(level, n - 1))>>)

ValueTrees ==
  {Wrapped(level, n) : level \in LevelsOver(ValueKeys, Values, MaxKeys),
                       n \in 0..(MaxDepth - 1)}

\* Documents with the family "a" at two levels: members with the text "x" at
\* the top level, and members with the text "y" in the level under "n".
K_n == <<"n">>

T_y == <<"y">>

MemberKeys == {K_a_one, K_a_other, K_a_zero}

\* A top level and the place of "n" in it: after its first p entries.
ScopeParents ==
  {pp \in LevelsOver(MemberKeys, {Str(T_x)}, MaxKeys) \X (0..MaxKeys) :
     pp[2] <= Len(pp[1])}

ScopeTrees ==
  {Obj(InsertAt(pp[1], pp[2], Entry(K_n, Obj(child)))) :
     pp \in ScopeParents, child \in LevelsOver(MemberKeys, {Str(T_y)}, MaxKeys)}

\* Documents for the order of keys and branches: plain keys, members of the
\* families a, b and 1 (an integer-like base), a plain key with the name of a
\* family, in every order, at the top level and in a nested level.
OrderKeys ==
  {K_a, <<"b">>, K_a_one, K_a_other, K_a_zero, <<"b", "_">> \o W_one,
   <<"1", "_">> \o W_one}

OrderTrees ==
  {Wrapped(level, n) : level \in LevelsOver(OrderKeys, {Str(T_x)}, MaxKeys + 1),
                       n \in 0..(MaxDepth - 1)}

\* Documents with one key, made of up to MaxSegs segments: a letter, the
\* separator, form names, a member key and a line terminator (the JSON key
\* "a\n_one").
KeyTexts ==
  UNION {{Flatten(ss) :
            ss \in [1..m -> {<<"a">>, <<"_">>, W_one, W_other, K_a_one, <<"\n">>}]} :
           m \in 0..MaxSegs}

KeyTrees == {Obj(<<Entry(k, Str(T_x))>>) : k \in KeyTexts}

(***************************************************************************)
(* The program: convertFile is called on a parsed document; its caller     *)
(* (processFile) catches what it throws and goes on with the next file.    *)
(***************************************************************************)
env ==
  [objectPrototype |-> objectPrototype, builtinOwn |-> builtinOwn,
   alias |-> <<>>, input |-> data]

\* No batch is running: the converter is called as a library function.
NoBatch ==
  /\ located = <<>>
  /\ inputKind = "none"
  /\ outputGiven = FALSE
  /\ callbackGiven = FALSE
  /\ bpc = "idle"
  /\ idx = 0
  /\ results = Undefined
  /\ attempt = Undefined
  /\ oplog = <<>>
  /\ rejection = "none"

InitWith(trees) ==
  /\ NoBatch
  /\ tree \in trees
  /\ data = tree
  /\ result = Undefined
  /\ pc = "ready"
  /\ objectPrototype = PristineEnv.objectPrototype
  /\ builtinOwn = PristineEnv.builtinOwn
  /\ ncalls = 0

\* The call has ended with r = [threw, value, env].
Ended(r) ==
  /\ pc' = IF r.threw THEN "threw" ELSE "returned"
  /\ result' = IF r.threw THEN Undefined ELSE r.value
  /\ data' = r.env.input
  /\ objectPrototype' = r.env.objectPrototype
  /\ builtinOwn' = r.env.builtinOwn

Convert ==
  /\ pc = "ready"
  /\ Ended(convertFile(data, env))
  /\ ncalls' = ncalls + 1
  /\ UNCHANGED <<tree, batchVars>>

NextCall ==
  /\ pc \in {"returned", "threw"}
  /\ ncalls < MaxCalls
  /\ tree' \in CallTrees
  /\ data' = tree'
  /\ result' = Undefined
  /\ pc' = "ready"
  /\ UNCHANGED <<objectPrototype, builtinOwn, ncalls, batchVars>>

Init == InitWith(Trees)

Next == Convert

Spec == Init /\ [][Next]_vars

InitText == InitWith(TextTrees)

NextText == Convert

SpecText == InitText /\ [][NextText]_vars

InitCalls == InitWith(CallTrees)

NextCalls == Convert \/ NextCall

SpecCalls == InitCalls /\ [][NextCalls]_vars

InitValues == InitWith(ValueTrees)

NextValues == Convert

SpecValues == InitValues /\ [][NextValues]_vars

InitScope == InitWith(ScopeTrees)

NextScope == Convert

SpecScope == InitScope /\ [][NextScope]_vars

\* convertTranslations applied to what it returned.
Rerun ==
  /\ pc = "returned"
  /\ ncalls < MaxCalls
  /\ tree' = result
  /\ data' = result
  /\ result' = Undefined
  /\ pc' = "ready"
  /\ UNCHANGED <<objectPrototype, builtinOwn, ncalls, batchVars>>

SpecTwice == InitWith(TextTrees \cup ValueTrees) /\ [][Convert \/ Rerun]_vars

SpecOrder == InitWith(OrderTrees) /\ [][Convert]_vars

SpecKeys == InitWith(KeyTrees) /\ [][Convert]_vars

(***************************************************************************)
(* processFiles(inputPath, outputPath, progressCallback) and processFile.  *)
(* A step is what runs between two awaits.  A located file is described    *)
(* by the one step that fails on it ("none": no step fails) and by the     *)
(* document its content parses to.  bpc is the position of the batch, idx  *)
(* the file of the current iteration, attempt the result processFile       *)
(* returned for it, oplog the operations on the file system and the calls  *)
(* of the progress callback, in order.                                     *)
(***************************************************************************)
convVars == <<tree, data, result, pc, objectPrototype, builtinOwn, ncalls>>

Faults == {"none", "mkdir", "read", "parse", "convert", "write"}

D_fine == Obj(<<Entry(K_a, Str(T_placeholder))>>)

\* A document on which convertFile throws.
D_throws == Obj(<<Entry(K_proto_one, Str(T_x)), Entry(K_one_other, Str(T_x))>>)

\* The paths of the files below the input directory, in sorted order.
Paths == <<<<"de", "a.json">>, <<"en", "a.json">>, <<"en", "b.json">>>>

File(fault, path) ==
  [fault |-> fault, path |-> path,
   content |-> IF fault = "convert" THEN D_throws ELSE D_fine]

\* findTranslationFiles, inputPath being a single file, a directory or a glob
\* pattern: the one file; the files of the directory, sorted; the matches
\* of the pattern, each once, in the order glob gives them.
IsFound(kind, ix) ==
  CASE kind = "file" -> Len(ix) = 1
    [] kind = "directory" -> \A i, j \in 1..Len(ix) : i < j => ix[i] < ix[j]
    [] kind = "glob" -> \A i, j \in 1..Len(ix) : i # j => ix[i] # ix[j]

FileLists(kind) ==
  UNION {{[i \in 1..m |-> File(f[i], Paths[ix[i]])] :
            ix \in {jx \in [1..m -> 1..Len(Paths)] : IsFound(kind, jx)},
            f \in [1..m -> Faults]} : m \in 0..MaxFiles}

InitBatch ==
  /\ inputKind \in {"file", "directory", "glob"}
  /\ located \in FileLists(inputKind)
  /\ outputGiven \in BOOLEAN
  /\ callbackGiven \in BOOLEAN
  /\ bpc = "find"
  /\ idx = 0
  /\ results = Undefined
  /\ attempt = Undefined
  /\ oplog = <<>>
  /\ rejection = "none"
  /\ tree = Undefined
  /\ data = Undefined
  /\ result = Undefined
  /\ pc = "idle"
  /\ objectPrototype = PristineEnv.objectPrototype
  /\ builtinOwn = PristineEnv.builtinOwn
  /\ ncalls = 0

\* The path of the input file.
InputPath(file) == <<"in">> \o file.path

\* relativePath = stats.isDirectory() ? path.relative(inputPath, file)
\*                                    : path.basename(file);
\* targetPath = path.join(outputPath, relativePath);
targetPath(kind, file) ==
  <<"out">> \o (IF kind = "directory" THEN file.path
                ELSE <<file.path[Len(file.path)]>>)

Event(op, path, r) == [op |-> op, file |-> idx, path |-> path, result |-> r]

Logged(op, path) == oplog' = Append(oplog, Event(op, path, Undefined))

\* for (const file of files): the first step for file i, or "return results".
LoopHead(i) ==
  IF i > Len(located) THEN "resolved" ELSE IF outputGiven THEN "mkdir" ELSE "read"

NextFile ==
  /\ idx' = idx + 1
  /\ bpc' = LoopHead(idx + 1)
  /\ attempt' = Undefined

\* The same without the test of files.length.
Found_NoEmptyCheck(files) ==
  /\ results' = [total |-> Len(files), successful |-> 0, failed |-> 0, files |-> <<>>]
  /\ idx' = 1
  /\ bpc' = LoopHead(1)
  /\ UNCHANGED rejection

\* if (files.length === 0) throw ...; const results = {...};
Found(files) ==
  IF Len(files) = 0
  THEN /\ bpc' = "rejected"
       /\ rejection' = "No translation files found"
       /\ UNCHANGED <<idx, results>>
  ELSE /\ results' = [total |-> Len(files), successful |-> 0, failed |-> 0,
                      files |-> <<>>]
       /\ idx' = 1
       /\ bpc' = LoopHead(1)
       /\ UNCHANGED rejection

Find ==
  /\ bpc = "find"
  /\ Found(located)
  /\ UNCHANGED <<convVars, located, inputKind, outputGiven, callbackGiven, attempt, oplog>>

\* await fs.mkdir(path.dirname(targetPath), { recursive: true }), outside
\* any try: its rejection is the rejection of processFiles.
Mkdir ==
  /\ bpc = "mkdir"
  /\ Logged("mkdir", SubSeq(targetPath(inputKind, located[idx]), 1,
                          Len(targetPath(inputKind, located[idx])) - 1))
  /\ IF located[idx].fault = "mkdir"
     THEN bpc' = "rejected" /\ rejection' = "mkdir"
     ELSE bpc' = "read" /\ UNCHANGED rejection
  /\ UNCHANGED <<convVars, located, inputKind, outputGiven, callbackGiven, idx, results, attempt>>

\* The same without the catch: the failure is the rejection of processFile,
\* and with it of processFiles.
Caught_Uncaught(step) ==
  /\ bpc' = "rejected"
  /\ rejection' = step
  /\ UNCHANGED attempt

\* catch (error) { return { success: false, inputPath, error: error.message } }
Caught(step) ==
  /\ attempt' = [success |-> FALSE, inputPath |-> idx, error |-> step]
  /\ bpc' = "record"
  /\ UNCHANGED rejection

\* const content = await fs.readFile(inputPath, 'utf-8');
Read ==
  /\ bpc = "read"
  /\ Logged("read", InputPath(located[idx]))
  /\ IF located[idx].fault = "read" THEN Caught("read")
     ELSE bpc' = "parse" /\ UNCHANGED <<attempt, rejection>>
  /\ UNCHANGED <<convVars, located, inputKind, outputGiven, callbackGiven, idx, results>>

\* const data = parseContent(content, inputFormat);
Parse ==
  /\ bpc = "parse"
  /\ IF located[idx].fault = "parse"
     THEN Caught("parse") /\ UNCHANGED <<tree, data, result, pc>>
     ELSE /\ tree' = located[idx].content
          /\ data' = located[idx].content
          /\ result' = Undefined
          /\ pc' = "ready"
          /\ bpc' = "convert"
          /\ UNCHANGED <<attempt, rejection>>
  /\ UNCHANGED <<objectPrototype, builtinOwn, ncalls, located, inputKind, outputGiven, callbackGiven, idx, results, oplog>>

\* convertFile(data) threw.
ConvertThrew ==
  /\ bpc = "convert"
  /\ pc = "threw"
  /\ Caught("convert")
  /\ UNCHANGED <<convVars, located, inputKind, outputGiven, callbackGiven, idx, results, oplog>>

\* await fs.writeFile(finalOutputPath, ...), with finalOutputPath =
\* outputPath || inputPath; return { success: true, ... };
Write ==
  /\ bpc = "convert"
  /\ pc = "returned"
  /\ Logged("write", IF outputGiven THEN targetPath(inputKind, located[idx])
                     ELSE InputPath(located[idx]))
  /\ IF located[idx].fault = "write" THEN Caught("write")
     ELSE /\ attempt' = [success |-> TRUE, inputPath |-> idx, error |-> "none"]
          /\ bpc' = "record"
          /\ UNCHANGED rejection
  /\ UNCHANGED <<convVars, located, inputKind, outputGiven, callbackGiven, idx, results>>

\* The same counting every result as a success.
Recorded_CountsAll(summary, r) ==
  [summary EXCEPT !.files = Append(@, r),
                  !.successful = @ + 1]

\* results.files.push(result); if (result.success) results.successful++;
\* else results.failed++;
Recorded(summary, r) ==
  [summary EXCEPT !.files = Append(@, r),
                  !.successful = IF r.success THEN @ + 1 ELSE @,
                  !.failed = IF r.success THEN @ ELSE @ + 1]

Record ==
  /\ bpc = "record"
  /\ results' = Recorded(results, attempt)
  /\ IF callbackGiven THEN bpc' = "callback" /\ UNCHANGED <<idx, attempt>>
     ELSE NextFile
  /\ UNCHANGED <<convVars, located, inputKind, outputGiven, callbackGiven, oplog, rejection>>

\* if (progressCallback) progressCallback(result, results);
Callback ==
  /\ bpc = "callback"
  /\ oplog' = Append(oplog, Event("callback", InputPath(located[idx]), attempt))
  /\ NextFile
  /\ UNCHANGED <<convVars, located, inputKind, outputGiven, callbackGiven, results, rejection>>

NextBatch ==
  \/ Find
  \/ Mkdir
  \/ Read
  \/ Parse
  \/ Convert
  \/ ConvertThrew
  \/ Write
  \/ Record
  \/ Callback

SpecBatch == InitBatch /\ [][NextBatch]_vars

(***************************************************************************)
(* Reading a tree for the properties below.                                *)
(***************************************************************************)
Contains(s, w) == \E i \in 1..Len(s) : StartsAt(s, i, w)

\* The plural-family members among the keys of a level, parsed.
PluralInfos(level) == {parsePluralKey(level[i].key) : i \in 1..Len(level)} \ {NoMatch}

\* The forms of the family of base at a level.
FormsOf(level, base) == {info.form : info \in {m \in PluralInfos(level) : m.baseKey = base}}

IsPlainKey(key) == parsePluralKey(key) = NoMatch

\* A plain key that neither names a family of its level nor is "__proto__".
IsOwnPlainKey(level, key) ==
  /\ IsPlainKey(key)
  /\ key # W_proto
  /\ FormsOf(level, key) = {}

Returns == pc = "returned"

(***************************************************************************)
(* C1.  Plural grouping completeness: at every level where keys K_<form>   *)
(* occur, the output level has the key K, its value is one string that     *)
(* starts with "{count, plural, ", ends with "}" and holds a "selector{"    *)
(* branch for each form of the family, and the output level has none of    *)
(* the keys K_zero .. K_other.  (An input level whose output level is      *)
(* missing is not looked into.)                                            *)
(***************************************************************************)
IsPluralText(v, forms) ==
  /\ v.type = "string"
  /\ StartsAt(v.s, 1, W_pluralHead)
  /\ EndsWith(v.s, <<"}">>)
  /\ \A f \in forms : Contains(v.s, formMapping(f) \o <<"{">>)

RECURSIVE C1_Level(_, _)
C1_Level(level, out) ==
  /\ \A info \in PluralInfos(level) :
       /\ HasKey(out, info.baseKey)
       /\ IsPluralText(GetOwn(out, info.baseKey), FormsOf(level, info.baseKey))
       /\ \A f \in Forms : ~HasKey(out, info.baseKey \o <<"_">> \o f)
  /\ \A i \in 1..Len(level) :
       (/\ IsPlainKey(level[i].key)
        /\ IsPlainObject(level[i].value)
        /\ HasKey(out, level[i].key))
       => (/\ IsPlainObject(GetOwn(out, level[i].key))
           => C1_Level(level[i].value.entries, GetOwn(out, level[i].key).entries))

C1_PluralGroupingComplete == Returns => C1_Level(tree.entries, result.entries)

(***************************************************************************)
(* C2.  The value under the base key of a family is exactly                *)
(* "{count, plural, " + the branches joined by one space + "}", a branch   *)
(* being <selector>{<text after interpolation rewriting>}, with =0 for     *)
(* zero and the form name otherwise.  Stated for the documents that are    *)
(* one family of string members.                                           *)
(***************************************************************************)
IsOneFamily(level) ==
  /\ level # <<>>
  /\ \A i \in 1..Len(level) :
       /\ parsePluralKey(level[i].key) # NoMatch
       /\ parsePluralKey(level[i].key).baseKey = K_a
       /\ level[i].value.type = "string"

C2_Branch(member, last) ==
  formMapping(parsePluralKey(member.key).form) \o <<"{">>
    \o ReplaceInterpolation(member.value.s, 1) \o <<"}">>
    \o (IF last THEN <<>> ELSE <<" ">>)

C2_Expected(level) ==
  Str(W_pluralHead
      \o Flatten([i \in 1..Len(level) |-> C2_Branch(level[i], i = Len(level))])
      \o <<"}">>)

C2_PluralTextExact ==
  (Returns /\ IsOneFamily(tree.entries))
  => result.entries = <<Entry(K_a, C2_Expected(tree.entries))>>

(***************************************************************************)
(* C3.  Nesting references are not rewritten inside plural branch text: a  *)
(* "$t(c)" in the text of a family member is still there, verbatim, in the *)
(* plural expression returned under the base key.                          *)
(***************************************************************************)
T_ref == <<"$", "t", "(", "c", ")">>

C3_Kept(level, out) ==
  \A i \in 1..Len(level) :
    Contains(level[i].value.s, T_ref)
    => (HasKey(out, K_a) /\ Contains(GetOwn(out, K_a).s, T_ref))

C3_NoNestingInPluralText ==
  (Returns /\ IsOneFamily(tree.entries)) => C3_Kept(tree.entries, result.entries)

(***************************************************************************)
(* C4.  Non-string identity: every number, boolean and null of the input   *)
(* is in the output unchanged, under its key, at its level.  Stated for    *)
(* the values under plain keys that name no family of their level (the     *)
(* values of family members are compiled into the plural text), at the     *)
(* levels the output has.                                                  *)
(***************************************************************************)
IsNonString(v) == v.type \in {"number", "boolean", "null"}

RECURSIVE C4_Level(_, _)
C4_Level(level, out) ==
  \A i \in 1..Len(level) :
    (IsPlainKey(level[i].key) /\ FormsOf(level, level[i].key) = {})
    => /\ IsNonString(level[i].value)
          => (HasKey(out, level[i].key) /\ GetOwn(out, level[i].key) = level[i].value)
       /\ (/\ IsPlainObject(level[i].value)
           /\ HasKey(out, level[i].key))
          => (/\ IsPlainObject(GetOwn(out, level[i].key))
              => C4_Level(level[i].value.entries, GetOwn(out, level[i].key).entries))

C4_NonStringIdentity == Returns => C4_Level(tree.entries, result.entries)

(***************************************************************************)
(* C5.  The conversion is total: no call of it throws.                     *)
(***************************************************************************)
C5_NeverThrows == pc # "threw"

(***************************************************************************)
(* C6.  The conversion is pure: each call of a sequence gives what the     *)
(* call alone gives, and no call changes anything outside its result       *)
(* (here: Object.prototype and the built-in function objects).             *)
(***************************************************************************)
C6_SameAsAlone(alone) ==
  /\ pc = "returned" => (~alone.threw /\ result = alone.value)
  /\ pc = "threw" => alone.threw

C6_PureNoGlobalState ==
  /\ C6_SameAsAlone(convertFile(tree, PristineEnv))
  /\ objectPrototype = PristineEnv.objectPrototype
  /\ builtinOwn = PristineEnv.builtinOwn

(***************************************************************************)
(* C7.  Keys that coincide with a built-in property name are handled like  *)
(* any other key: such a plain key is kept with its converted value, and a *)
(* family with such a base is emitted under its base key with all its      *)
(* branches.  Stated for the top level.                                    *)
(***************************************************************************)
BuiltinKeys == BuiltinNames \cup {W_proto}

C7_PlainKept(level, out, e) ==
  (e.key \in BuiltinKeys /\ FormsOf(level, e.key) = {} /\ ~IsPlainObject(e.value))
  => (/\ HasKey(out, e.key)
      /\ GetOwn(out, e.key) = convertNesting(convertInterpolation(e.value)))

C7_FamilyEmitted(level, out, info) ==
  info.baseKey \in BuiltinKeys
  => (/\ HasKey(out, info.baseKey)
      /\ IsPluralText(GetOwn(out, info.baseKey), FormsOf(level, info.baseKey)))

C7_Level(level, out) ==
  /\ \A i \in 1..Len(level) : C7_PlainKept(level, out, level[i])
  /\ \A info \in PluralInfos(level) : C7_FamilyEmitted(level, out, info)

C7_BuiltinKeyNamesAccepted == Returns => C7_Level(tree.entries, result.entries)

(***************************************************************************)
(* C8.  Structure preservation: for a tree without plural-suffixed keys,   *)
(* the output has the same keys and the same nesting at every level, and   *)
(* differs from the input only in the content of string leaves.            *)
(***************************************************************************)
RECURSIVE NoPluralKeys(_)
NoPluralKeys(level) ==
  \A i \in 1..Len(level) :
    /\ IsPlainKey(level[i].key)
    /\ IsPlainObject(level[i].value) => NoPluralKeys(level[i].value.entries)

RECURSIVE SameShape(_, _)
SameShape(level, out) ==
  /\ Len(out) = Len(level)
  /\ \A i \in 1..Len(level) :
       /\ out[i].key = level[i].key
       /\ CASE level[i].value.type = "string" -> out[i].value.type = "string"
            [] level[i].value.type = "object" ->
                 /\ IsPlainObject(out[i].value)
                 /\ SameShape(level[i].value.entries, out[i].value.entries)
            [] OTHER -> out[i].value = level[i].value

C8_StructurePreserved ==
  (Returns /\ NoPluralKeys(tree.entries)) => SameShape(tree.entries, result.entries)

(***************************************************************************)
(* The leftmost non-overlapping occurrences of a pattern.  A span <<i, j>> *)
(* is an occurrence from index i to index j.  P is the choice of a         *)
(* left-to-right scan iff its spans are disjoint and every other span      *)
(* starts inside a chosen span that starts before it.                      *)
(***************************************************************************)
IsLeftmostChoice(P, spans) ==
  /\ \A a, b \in P : a # b => (a[2] < b[1] \/ b[2] < a[1])
  /\ \A a \in spans \ P : \E b \in P : b[1] < a[1] /\ a[1] <= b[2]

LeftmostSpans(spans) == CHOOSE P \in SUBSET spans : IsLeftmostChoice(P, spans)

\* s[i..j] is "{{" c "}}" with c a non-empty run of characters other than "}".
IsPlaceholder(s, i, j) ==
  /\ j >= i + 4
  /\ s[i] = "{" /\ s[i + 1] = "{"
  /\ s[j - 1] = "}" /\ s[j] = "}"
  /\ \A k \in (i + 2)..(j - 2) : s[k] # "}"

Placeholders(s) ==
  {sp \in (1..Len(s)) \X (1..Len(s)) : IsPlaceholder(s, sp[1], sp[2])}

\* s with the first "{" and the last "}" of every span of P left out.
WithoutOuterBraces(s, P) ==
  Flatten([p \in 1..Len(s) |->
             IF \E sp \in P : p = sp[1] \/ p = sp[2] THEN <<>> ELSE <<s[p]>>])

InterpolationRewritten(s) == WithoutOuterBraces(s, LeftmostSpans(Placeholders(s)))

\* s[i..j] is "$t(" k ")" with k a non-empty run of characters other than ")".
IsReference(s, i, j) ==
  /\ j >= i + 4
  /\ s[i] = "$" /\ s[i + 1] = "t" /\ s[i + 2] = "("
  /\ s[j] = ")"
  /\ \A k \in (i + 3)..(j - 1) : s[k] # ")"

References(s) ==
  {sp \in (1..Len(s)) \X (1..Len(s)) : IsReference(s, sp[1], sp[2])}

\* s with "$t(" turned into "[REF:" and ")" into "]" in every span of P.
WithMarkers(s, P) ==
  Flatten([p \in 1..Len(s) |->
             IF \E sp \in P : p = sp[1] THEN W_REF
             ELSE IF \E sp \in P : p = sp[1] + 1 \/ p = sp[1] + 2 THEN <<>>
             ELSE IF \E sp \in P : p = sp[2] THEN <<"]">>
             ELSE <<s[p]>>])

NestingRewritten(s) == WithMarkers(s, LeftmostSpans(References(s)))

(***************************************************************************)
(* C9.  Interpolation rewriting of plain leaves: a string leaf under a     *)
(* plain key that holds no "$t(" comes out as the input string with every  *)
(* leftmost non-overlapping "{{c}}", c a non-empty run of characters other *)
(* than "}", turned into "{c}", and nothing else changed.  (The leaves are *)
(* those the output has a place for: the key names no family of its level  *)
(* and is not "__proto__"; C7 and C24 are about those.)                    *)
(***************************************************************************)
RECURSIVE C9_Level(_, _)
C9_Level(level, out) ==
  \A i \in 1..Len(level) :
    IsOwnPlainKey(level, level[i].key)
    => /\ HasKey(out, level[i].key)
       /\ (level[i].value.type = "string" /\ ~Contains(level[i].value.s, <<"$", "t", "(">>))
          => GetOwn(out, level[i].key) = Str(InterpolationRewritten(level[i].value.s))
       /\ IsPlainObject(level[i].value)
          => (/\ IsPlainObject(GetOwn(out, level[i].key))
              /\ C9_Level(level[i].value.entries, GetOwn(out, level[i].key).entries))

C9_InterpolationOfPlainLeaves == Returns => C9_Level(tree.entries, result.entries)

T_twoPlaceholders ==
  <<"{", "{", "c", "}", "}", "{", "{", "c", "}", "}">>

C9_Witness ==
  /\ Returns
  /\ tree = Obj(<<Entry(K_a, Str(T_twoPlaceholders))>>)
  /\ result = Obj(<<Entry(K_a, Str(<<"{", "c", "}", "{", "c", "}">>))>>)

(***************************************************************************)
(* C10.  Nesting-reference rewriting of plain leaves: a string leaf under  *)
(* a plain key comes out as the interpolation-rewritten string with every  *)
(* leftmost non-overlapping "$t(k)", k a non-empty run of characters other *)
(* than ")", turned as a whole into "[REF:k]", and nothing else changed.   *)
(* (The leaves are those of C9.)                                           *)
(***************************************************************************)
RECURSIVE C10_Level(_, _)
C10_Level(level, out) ==
  \A i \in 1..Len(level) :
    IsOwnPlainKey(level, level[i].key)
    => /\ HasKey(out, level[i].key)
       /\ level[i].value.type = "string"
          => GetOwn(out, level[i].key)
               = Str(NestingRewritten(InterpolationRewritten(level[i].value.s)))
       /\ IsPlainObject(level[i].value)
          => (/\ IsPlainObject(GetOwn(out, level[i].key))
              /\ C10_Level(level[i].value.entries, GetOwn(out, level[i].key).entries))

C10_NestingOfPlainLeaves == Returns => C10_Level(tree.entries, result.entries)

T_twoReferences ==
  <<"$", "t", "(", "c", ")", "{", "{", "c", "}", "}", "$", "t", "(", "c", ")">>

C10_Witness ==
  /\ Returns
  /\ tree = Obj(<<Entry(K_a, Str(T_twoReferences))>>)
  /\ result = Obj(<<Entry(K_a, Str(W_REF \o <<"c", "]", "{", "c", "}">> \o W_REF \o <<"c", "]">>))>>)

(***************************************************************************)
(* C11.  Values without interpolation are reproduced unchanged.  A value   *)
(* is read where the output holds its key; an output value that is a       *)
(* synthesized plural expression stands for a family that took the key     *)
(* (C24), not for the value.                                               *)
(***************************************************************************)
\* A string without the pattern "{{c}}", or a number, boolean, null or list.
C11_NoInterpolation(v) ==
  IF v.type = "string" THEN Placeholders(v.s) = {} ELSE ~IsPlainObject(v)

\* The same, and a string holds no reference "$t(k)" either.
C11_NoRewriting(v) ==
  IF v.type = "string" THEN Placeholders(v.s) = {} /\ References(v.s) = {}
  ELSE ~IsPlainObject(v)

C11_Covers(v, references) ==
  IF references THEN C11_NoInterpolation(v) ELSE C11_NoRewriting(v)

C11_IsPluralExpression(v) ==
  IF v.type = "string" THEN StartsAt(v.s, 1, W_pluralHead) ELSE FALSE

C11_Same(v, returned) == returned = v \/ C11_IsPluralExpression(returned)

RECURSIVE C11_Level(_, _, _)
C11_Level(level, out, references) ==
  \A i \in 1..Len(level) :
    (IsPlainKey(level[i].key) /\ HasKey(out, level[i].key))
    => /\ C11_Covers(level[i].value, references)
          => C11_Same(level[i].value, GetOwn(out, level[i].key))
       /\ (IsPlainObject(level[i].value) /\ IsPlainObject(GetOwn(out, level[i].key)))
          => C11_Level(level[i].value.entries, GetOwn(out, level[i].key).entries,
                       references)

C12_IsMember(e) == parsePluralKey(e.key) # NoMatch

C12_Members(level) == SelectSeq(level, C12_IsMember)

\* The output level holds under "a" the expression of these members alone.
C12_OwnBranches(members, out) ==
  IF members = <<>> THEN ~HasKey(out, K_a)
  ELSE HasKey(out, K_a) /\ GetOwn(out, K_a) = C2_Expected(members)

C12_SiblingScopeIsolation ==
  Returns
  => /\ C12_OwnBranches(C12_Members(tree.entries), result.entries)
     /\ HasKey(result.entries, K_n)
     /\ IsPlainObject(GetOwn(result.entries, K_n))
     /\ C12_OwnBranches(C12_Members(GetOwn(tree.entries, K_n).entries),
                        GetOwn(result.entries, K_n).entries)

C12_Witness ==
  /\ Returns
  /\ tree = Obj(<<Entry(K_a_one, Str(T_x)),
                  Entry(K_n, Obj(<<Entry(K_a_other, Str(T_y))>>))>>)
  /\ result = Obj(<<Entry(K_n, Obj(<<Entry(K_a, Str(W_pluralHead \o W_other \o <<"{", "y", "}", "}">>))>>)),
                    Entry(K_a, Str(W_pluralHead \o W_one \o <<"{", "x", "}", "}">>))>>)

(***************************************************************************)
(* C13.  convertTranslations does not mutate its input: when the call has  *)
(* ended, the document in memory has at every level the keys, in the       *)
(* order, and the values it had when it was parsed.                        *)
(***************************************************************************)
C13_InputNotMutated == pc \in {"returned", "threw"} => data = tree

(***************************************************************************)
(* C14.  Lists are opaque: a list under a plain key that is not the base   *)
(* of a family of its level is in the output under the same key, with the  *)
(* same elements in the same order, the strings in it as they were.        *)
(***************************************************************************)
RECURSIVE C14_Level(_, _)
C14_Level(level, out) ==
  \A i \in 1..Len(level) :
    (IsPlainKey(level[i].key) /\ FormsOf(level, level[i].key) = {})
    => /\ level[i].value.type = "array"
          => (HasKey(out, level[i].key) /\ GetOwn(out, level[i].key) = level[i].value)
       /\ (/\ IsPlainObject(level[i].value)
           /\ HasKey(out, level[i].key)
           /\ IsPlainObject(GetOwn(out, level[i].key)))
          => C14_Level(level[i].value.entries, GetOwn(out, level[i].key).entries)

C14_ListsOpaque == Returns => C14_Level(tree.entries, result.entries)

(***************************************************************************)
(* Reading a batch for the properties below.                               *)
(***************************************************************************)
\* The positions in oplog of the operations op on file i.
OpsOn(op, i) == {k \in 1..Len(oplog) : oplog[k].op = op /\ oplog[k].file = i}

\* A step of the batch fails on the file.
FailsOn(file) ==
  IF file.fault = "mkdir" THEN outputGiven ELSE file.fault # "none"

(***************************************************************************)
(* C15.  Per-file failure isolation: a failure on one located file (read,  *)
(* parse, write, or an output directory that cannot be created) never      *)
(* aborts the batch: processFiles rejects only when no file was located,   *)
(* and when it resolves every located file has been attempted and a file   *)
(* on which a step fails is recorded as failed.                            *)
(***************************************************************************)
C15_Summary(i) ==
  /\ OpsOn("read", i) # {}
  /\ Len(results.files) >= i
  /\ FailsOn(located[i]) => ~results.files[i].success

C15_FailureIsolated ==
  /\ bpc = "rejected" => located = <<>>
  /\ bpc = "resolved" => \A i \in 1..Len(located) : C15_Summary(i)

(***************************************************************************)
(* C16.  With a progress callback, each located file gets exactly one call *)
(* of it: the call comes after every operation of that file's attempt and  *)
(* before any operation on a later file, it is given the result recorded   *)
(* for that file, and when the batch has ended no located file is without  *)
(* its call.                                                               *)
(***************************************************************************)
\* The call at position k of oplog is the call for its file's finished attempt.
C16_CallInPlace(k) ==
  /\ oplog[k].result # Undefined
  /\ Len(results.files) >= oplog[k].file
  /\ results.files[oplog[k].file] = oplog[k].result
  /\ \A j \in 1..Len(oplog) :
       /\ (oplog[j].file = oplog[k].file /\ j # k) => (j < k /\ oplog[j].op # "callback")
       /\ oplog[j].file > oplog[k].file => j > k
       /\ oplog[j].file < oplog[k].file => j < k

C16_CallbackOncePerFile ==
  callbackGiven
  => /\ \A k \in 1..Len(oplog) : oplog[k].op = "callback" => C16_CallInPlace(k)
     /\ bpc \in {"resolved", "rejected"}
        => \A i \in 1..Len(located) : Cardinality(OpsOn("callback", i)) = 1

(***************************************************************************)
(* C17.  When discovery locates no file, processFiles rejects with the     *)
(* "No ... files found" error and has done nothing else: no file read or   *)
(* written, no directory created, no callback called, nothing converted.   *)
(***************************************************************************)
C17_NoFilesRejects ==
  (located = <<>> /\ bpc # "find")
  => /\ bpc = "rejected"
     /\ rejection = "No translation files found"
     /\ oplog = <<>>
     /\ results = Undefined
     /\ pc = "idle"

C17_Witness ==
  /\ located = <<>>
  /\ outputGiven
  /\ callbackGiven
  /\ bpc = "rejected"

(***************************************************************************)
(* C18.  processFile never rejects: a failure of its read, parse,          *)
(* conversion or write is the result it returns, with success = false,     *)
(* the input path and the error.  It returns success = true only after     *)
(* the read, the parse, the conversion and the write, in that order.       *)
(* After a failure at read or parse, no write on the file was attempted.   *)
(***************************************************************************)
C18_StepFaults == {"read", "parse", "convert", "write"}

C18_Succeeded(i) ==
  /\ located[i].fault \notin C18_StepFaults
  /\ tree = located[i].content
  /\ pc = "returned"
  /\ Cardinality(OpsOn("read", i)) = 1
  /\ Cardinality(OpsOn("write", i)) = 1
  /\ \A r \in OpsOn("read", i) : \A w \in OpsOn("write", i) : r < w

C18_Failed(i, error) ==
  /\ error \in C18_StepFaults
  /\ error = located[i].fault
  /\ error \in {"read", "parse"} => OpsOn("write", i) = {}
  /\ error = "convert" => pc = "threw" /\ OpsOn("write", i) = {}
  /\ error # "read" => Cardinality(OpsOn("read", i)) = 1

C18_Returned(r) ==
  /\ r.inputPath = idx
  /\ IF r.success THEN C18_Succeeded(idx) ELSE C18_Failed(idx, r.error)

C18_ProcessFileNeverRejects ==
  /\ rejection \in {"none", "No translation files found", "mkdir"}
  /\ bpc \in {"record", "callback"} => C18_Returned(attempt)

C18_Witness ==
  /\ bpc = "record"
  /\ idx = 2
  /\ located[1].fault = "none"
  /\ ~attempt.success
  /\ attempt.error = "parse"
  /\ OpsOn("write", 1) # {}

(***************************************************************************)
(* C19.  At every point of the batch successful + failed is the number of  *)
(* results in files.  When processFiles resolves, total = successful +     *)
(* failed = the number of located files, files holds one result per        *)
(* located file in processing order, and successful is the number of       *)
(* results whose success flag is true.                                     *)
(***************************************************************************)
C19_Running(summary) ==
  summary.successful + summary.failed = Len(summary.files)

C19_Resolved(summary) ==
  /\ summary.total = Len(located)
  /\ summary.total = summary.successful + summary.failed
  /\ Len(summary.files) = Len(located)
  /\ \A i \in 1..Len(summary.files) : summary.files[i].inputPath = i
  /\ summary.successful =
       Cardinality({i \in 1..Len(summary.files) : summary.files[i].success})

C19_SummaryCounters ==
  /\ results # Undefined => C19_Running(results)
  /\ bpc = "resolved" => C19_Resolved(results)

C19_Witness ==
  /\ bpc = "resolved"
  /\ Len(located) = 2
  /\ results.successful = 1
  /\ results.failed = 1
  /\ ~results.files[1].success

(***************************************************************************)
(* C20.  For a key k that is not a plural key and a tree v, the value      *)
(* stored at k in convertTranslations({k: v}) is convertTranslations(v).   *)
(***************************************************************************)
C20_Stored(k, sub, out) ==
  /\ ~sub.threw
  /\ HasKey(out, k)
  /\ GetOwn(out, k) = sub.value

C20_Single(k, v) ==
  (IsPlainKey(k) /\ IsPlainObject(v))
  => C20_Stored(k, convertTranslations(v.entries, PristineEnv, NotInput),
                result.entries)

C20_NestedSameAlgorithm ==
  (Returns /\ Len(tree.entries) = 1)
  => C20_Single(tree.entries[1].key, tree.entries[1].value)

(***************************************************************************)
(* C21.  A key is a member of a plural family if and only if it is         *)
(* <base>_<form> with form one of zero, one, two, few, many, other and     *)
(* base non-empty, of any characters; base is what stands before the last  *)
(* _<form>.  A document with the one key k and the text "x" comes out as   *)
(* the family of base when k is a member, and unchanged when it is not.    *)
(***************************************************************************)
C21_HasForm(k, f) == EndsWith(k, <<"_">> \o f) /\ Len(k) > Len(f) + 1

C21_IsMember(k) == \E f \in Forms : C21_HasForm(k, f)

C21_Family(k, f) ==
  Obj(<<Entry(SubSeq(k, 1, Len(k) - Len(f) - 1),
              Str(W_pluralHead \o (IF f = W_zero THEN <<"=", "0">> ELSE f)
                  \o <<"{", "x", "}", "}">>))>>)

C21_Expected(k) ==
  IF C21_IsMember(k)
  THEN C21_Family(k, CHOOSE f \in Forms : C21_HasForm(k, f))
  ELSE Obj(<<Entry(k, Str(T_x))>>)

C21_PluralKeyDetection ==
  (Returns /\ Len(tree.entries) = 1 /\ tree.entries[1].value = Str(T_x))
  => result = C21_Expected(tree.entries[1].key)

(***************************************************************************)
(* C22.  Key order of an output level: the plain and nested keys come      *)
(* first, in their input order, and every synthesized plural-family key    *)
(* comes after all of them, the families in the order in which their base  *)
(* keys first appear in the input level.                                   *)
(***************************************************************************)
\* The index of the first member of the family of base in level.
C22_FirstMember(level, base) ==
  CHOOSE i \in 1..Len(level) :
    /\ parsePluralKey(level[i].key) # NoMatch
    /\ parsePluralKey(level[i].key).baseKey = base
    /\ \A j \in 1..(i - 1) :
         parsePluralKey(level[j].key) = NoMatch
         \/ parsePluralKey(level[j].key).baseKey # base

C22_Bases(level) == {info.baseKey : info \in PluralInfos(level)}

C22_PlainKeys(level) == {k \in KeysOf(level) : IsPlainKey(k)}

C22_PlainInInputOrder(level, out) ==
  \A p, q \in C22_PlainKeys(level) \cap KeysOf(out) :
    KeyIndex(level, p) < KeyIndex(level, q) => KeyIndex(out, p) < KeyIndex(out, q)

C22_FamiliesAfterPlain(level, out) ==
  \A b \in C22_Bases(level) \cap KeysOf(out) :
    \A p \in (C22_PlainKeys(level) \cap KeysOf(out)) \ {b} :
      KeyIndex(out, p) < KeyIndex(out, b)

C22_FamiliesByFirstAppearance(level, out) ==
  \A b, c \in C22_Bases(level) \cap KeysOf(out) :
    C22_FirstMember(level, b) < C22_FirstMember(level, c)
    => KeyIndex(out, b) < KeyIndex(out, c)

C22_TopLevel(level, out) ==
  /\ C22_PlainInInputOrder(level, out)
  /\ C22_FamiliesAfterPlain(level, out)
  /\ C22_FamiliesByFirstAppearance(level, out)

C22_KeyOrder == Returns => C22_TopLevel(tree.entries, result.entries)

(***************************************************************************)
(* C23.  Branch order inside a plural expression: the branches stand in    *)
(* the order in which the member keys of the family stand in the source    *)
(* level, not in a canonical order of the categories.  Stated for every    *)
(* level and every family of it whose expression the output holds under    *)
(* the base key: of all the orders of its branches, the expression has     *)
(* the order of the source.                                                *)
(***************************************************************************)
C23_Members(level, base) ==
  SelectSeq(level, LAMBDA e : /\ parsePluralKey(e.key) # NoMatch
                              /\ parsePluralKey(e.key).baseKey = base)

C23_Orderings(members) ==
  {[i \in 1..Len(members) |-> members[f[i]]] :
     f \in {g \in [1..Len(members) -> 1..Len(members)] :
              \A i, j \in 1..Len(members) : g[i] = g[j] => i = j}}

C23_InSourceOrder(members, expression) ==
  expression \in {C2_Expected(m) : m \in C23_Orderings(members)}
  => expression = C2_Expected(members)

RECURSIVE C23_Level(_, _)
C23_Level(level, out) ==
  /\ \A base \in C22_Bases(level) \cap KeysOf(out) :
       C23_InSourceOrder(C23_Members(level, base), GetOwn(out, base))
  /\ \A i \in 1..Len(level) :
       (/\ IsPlainKey(level[i].key)
        /\ IsPlainObject(level[i].value)
        /\ HasKey(out, level[i].key)
        /\ IsPlainObject(GetOwn(out, level[i].key)))
       => C23_Level(level[i].value.entries, GetOwn(out, level[i].key).entries)

C23_BranchOrder == Returns => C23_Level(tree.entries, result.entries)

C23_Witness ==
  /\ Returns
  /\ tree = Obj(<<Entry(K_a_other, Str(T_x)), Entry(K_a_one, Str(T_x)),
                  Entry(K_a_zero, Str(T_x))>>)
  /\ result = Obj(<<Entry(K_a,
                 Str(W_pluralHead \o W_other \o <<"{", "x", "}", " ">>
                     \o W_one \o <<"{", "x", "}", " ", "=", "0", "{", "x", "}", "}">>))>>)

(***************************************************************************)
(* C24.  Plain/plural collision: when a level holds a plain key foo, with  *)
(* any value, and one or more keys foo_<form>, the output value of foo is  *)
(* the plural expression of the family and the plain value is dropped,     *)
(* whatever the order of foo and the foo_<form> keys.                      *)
(***************************************************************************)
C24_Overwritten(level, out, foo) ==
  /\ HasKey(out, foo)
  /\ C11_IsPluralExpression(GetOwn(out, foo))
  /\ GetOwn(out, foo) # GetOwn(level, foo)

C24_Level(level, out) ==
  \A i \in 1..Len(level) :
    (IsPlainKey(level[i].key) /\ FormsOf(level, level[i].key) # {})
    => C24_Overwritten(level, out, level[i].key)

C24_PlainPluralCollision == Returns => C24_Level(tree.entries, result.entries)

(***************************************************************************)
(* C25.  The conversion is idempotent on its own output: converting what   *)
(* a conversion returned returns it unchanged.                             *)
(***************************************************************************)
C25_Idempotent ==
  (ncalls >= 2 /\ pc \in {"returned", "threw"}) => (Returns /\ result = tree)

(***************************************************************************)
(* C26.  With an output directory, distinct located files are written to   *)
(* distinct target paths, whether the input is a single file, a directory  *)
(* or a glob pattern: no write of a batch goes to the path another file    *)
(* of the batch was written to.                                            *)
(***************************************************************************)
C26_Writes == {k \in 1..Len(oplog) : oplog[k].op = "write"}

C26_DistinctTargets ==
  outputGiven
  => \A j, k \in C26_Writes :
       oplog[j].file # oplog[k].file => oplog[j].path # oplog[k].path

====
